---- MODULE Spec2Model ----
(***************************************************************************)
(* The task store of the Todo application: the TodoApp component of        *)
(* src/src/components/Todo.tsx, its React state, its event handlers and    *)
(* the two effects that mirror the state into localStorage.                *)
(*                                                                         *)
(* A string is a sequence of one-character strings, so that trim() is      *)
(* computed.  A Todo is a function from the keys the object has to their   *)
(* values: the object addTodo builds has no updatedAt key at all.  A       *)
(* timestamp is a record whose type says whether it is a Date object or    *)
(* the ISO string JSON.stringify turns a Date into; the instant itself is  *)
(* read by no operation of the store and is not represented.               *)
(*                                                                         *)
(* src/unnamed/part_000 is the earlier version of the same component: the  *)
(* same initializers, effects, addTodo, deleteTodo and toggleDarkMode, no  *)
(* editing, and a toggleTodo that does not stamp updatedAt.                *)
(***************************************************************************)
EXTENDS Integers, Sequences, FiniteSets, TLC

VARIABLES
    phase,          \* "closed": page not loaded; "running": mounted; "crashed": mount threw
    todos,          \* useState<Todo[]>
    inputValue,     \* useState('')
    editingId,      \* useState<string | null>(null)
    editValue,      \* useState('')
    isDarkMode,     \* useState(false or the saved flag)
    localStorage,   \* the two keys 'todos' and 'darkMode'
    toast,          \* the notification the latest handler raised, "none" if it raised none
    uuids           \* how many ids crypto.randomUUID() has handed out

vars == <<phase, todos, inputValue, editingId, editValue, isDarkMode,
          localStorage, toast, uuids>>

(***************************************************************************)
(* Bounds                                                                  *)
(***************************************************************************)
\* crypto.randomUUID() is called at most MaxTodos times in a behaviour.
MaxTodos == 2

\* The ids a caller may pass: the n-th call of randomUUID returns n.
Ids == 1..MaxTodos

\* editingId's null.
Null == 0

\* What the user leaves in a text field: nothing, whitespace only, text
\* with whitespace on both sides.
Typed == { <<>>, <<" ", " ">>, <<" ", "a", " ">> }

(***************************************************************************)
(* Strings                                                                 *)
(***************************************************************************)
IsSpace(c) == c = " "

RECURSIVE TrimStart(_)
TrimStart(s) ==
    IF s # <<>> /\ IsSpace(Head(s)) THEN TrimStart(Tail(s)) ELSE s

RECURSIVE TrimEnd(_)
TrimEnd(s) ==
    IF s # <<>> /\ IsSpace(s[Len(s)]) THEN TrimEnd(SubSeq(s, 1, Len(s) - 1)) ELSE s

\* String.prototype.trim
Trim(s) == TrimEnd(TrimStart(s))

(***************************************************************************)
(* Todo objects, Dates and JSON                                            *)
(***************************************************************************)
\* new Date()
NewDate == [type |-> "Date"]

\* Date.prototype.toJSON: the ISO string of the instant.  A value that is
\* already a string is serialized as itself.
DateToJSON(d) == IF d.type = "Date" THEN [type |-> "string"] ELSE d

HasUpdatedAt(todo) == "updatedAt" \in DOMAIN todo

\* JSON.stringify of one Todo: every key the object has, Dates as ISO strings.
StringifyTodo(todo) ==
    IF HasUpdatedAt(todo)
    THEN [id |-> todo.id, text |-> todo.text, completed |-> todo.completed,
          createdAt |-> DateToJSON(todo.createdAt),
          updatedAt |-> DateToJSON(todo.updatedAt)]
    ELSE [id |-> todo.id, text |-> todo.text, completed |-> todo.completed,
          createdAt |-> DateToJSON(todo.createdAt)]

\* A localStorage entry: kind "absent" (getItem returns null), "empty" (the
\* empty string), "garbage" (text that is not JSON) or "json" (JSON text,
\* held as the value it denotes).
Absent(dflt) == [kind |-> "absent", value |-> dflt]
EmptyText(dflt) == [kind |-> "empty", value |-> dflt]
Garbage(dflt) == [kind |-> "garbage", value |-> dflt]
JSONText(v) == [kind |-> "json", value |-> v]

\* JSON.stringify(todos)
StringifyTodos(ts) == JSONText([i \in 1..Len(ts) |-> StringifyTodo(ts[i])])

\* JSON.stringify(isDarkMode)
StringifyDarkMode(b) == JSONText(b)

\* `saved ? ... : dflt`: null and '' are falsy.
Falsy(entry) == entry.kind \in {"absent", "empty"}

\* JSON.parse throws a SyntaxError on text that is not JSON.
ParseThrows(entry) == entry.kind = "garbage"

\* JSON.parse: the value the text denotes; an ISO string stays a string.
JSONParse(entry) == entry.value

\* useState initializer of todos
LoadTodos(store) ==
    IF Falsy(store.todos) THEN <<>> ELSE JSONParse(store.todos)

\* useState initializer of isDarkMode
LoadDarkMode(store) ==
    IF Falsy(store.darkMode) THEN FALSE ELSE JSONParse(store.darkMode)

\* Whether one of the two initializers throws.
MountThrows(store) ==
    \/ ~Falsy(store.todos) /\ ParseThrows(store.todos)
    \/ ~Falsy(store.darkMode) /\ ParseThrows(store.darkMode)

\* The todos effect not writing.
PersistTodosSkipped(store, ts) == store

\* useEffect(..., [todos])
PersistTodos(store, ts) == [store EXCEPT !.todos = StringifyTodos(ts)]

\* useEffect(..., [isDarkMode])
PersistDarkMode(store, b) == [store EXCEPT !.darkMode = StringifyDarkMode(b)]

(***************************************************************************)
(* Initial state: the page is not loaded and localStorage holds what an    *)
(* earlier session, or anything else, left under the two keys.             *)
(***************************************************************************)
InitialTodosEntries ==
    { Absent(<<>>), EmptyText(<<>>), Garbage(<<>>), JSONText(<<>>) }

InitialDarkModeEntries ==
    { Absent(FALSE), EmptyText(FALSE), Garbage(FALSE), JSONText(FALSE), JSONText(TRUE) }

Init ==
    /\ phase = "closed"
    /\ todos = <<>>
    /\ inputValue = <<>>
    /\ editingId = Null
    /\ editValue = <<>>
    /\ isDarkMode = FALSE
    /\ localStorage \in [todos : InitialTodosEntries, darkMode : InitialDarkModeEntries]
    /\ toast = "none"
    /\ uuids = 0

(***************************************************************************)
(* Mounting the component: first load, or a reload of the running page.    *)
(***************************************************************************)
Mount ==
    /\ phase \in {"closed", "running"}
    /\ IF MountThrows(localStorage)
       THEN /\ phase' = "crashed"
            /\ UNCHANGED <<todos, inputValue, editingId, editValue, isDarkMode,
                           localStorage, toast, uuids>>
       ELSE /\ phase' = "running"
            /\ todos' = LoadTodos(localStorage)
            /\ isDarkMode' = LoadDarkMode(localStorage)
            /\ inputValue' = <<>>
            /\ editingId' = Null
            /\ editValue' = <<>>
            /\ localStorage' = PersistDarkMode(PersistTodos(localStorage, todos'), isDarkMode')
            /\ toast' = "none"
            /\ UNCHANGED uuids

(***************************************************************************)
(* Handlers                                                                *)
(***************************************************************************)
\* onChange of the new-task input
setInputValue(s) ==
    /\ phase = "running"
    /\ inputValue' = s
    /\ toast' = "none"
    /\ UNCHANGED <<phase, todos, editingId, editValue, isDarkMode, localStorage, uuids>>

NewTodo(id, text) ==
    [id |-> id, text |-> text, completed |-> FALSE, createdAt |-> NewDate]

\* addTodo clearing the field also when it rejects the input.
addTodoClearsInput ==
    /\ phase = "running"
    /\ IF Trim(inputValue) = <<>>
       THEN /\ toast' = "error: Please enter a task!"
            /\ inputValue' = <<>>
            /\ UNCHANGED <<phase, todos, editingId, editValue, isDarkMode,
                           localStorage, uuids>>
       ELSE /\ uuids < MaxTodos
            /\ uuids' = uuids + 1
            /\ todos' = Append(todos, NewTodo(uuids', Trim(inputValue)))
            /\ inputValue' = <<>>
            /\ toast' = "success: Task added successfully!"
            /\ localStorage' = [localStorage EXCEPT !.todos =
                                   [kind |-> "json",
                                    value |-> [i \in 1..Len(todos') |-> StringifyTodo(todos'[i])]]]
            /\ UNCHANGED <<phase, editingId, editValue, isDarkMode>>

\* addTodo with the new task put first.
addTodoPrepends ==
    /\ phase = "running"
    /\ IF Trim(inputValue) = <<>>
       THEN /\ toast' = "error: Please enter a task!"
            /\ UNCHANGED <<phase, todos, inputValue, editingId, editValue, isDarkMode,
                           localStorage, uuids>>
       ELSE /\ uuids < MaxTodos
            /\ uuids' = uuids + 1
            /\ todos' = <<[id |-> uuids', text |-> Trim(inputValue), completed |-> FALSE,
                           createdAt |-> [type |-> "Date"]]>> \o todos
            /\ inputValue' = <<>>
            /\ toast' = "success: Task added successfully!"
            /\ localStorage' = [localStorage EXCEPT !.todos =
                                   [kind |-> "json",
                                    value |-> [i \in 1..Len(todos') |-> StringifyTodo(todos'[i])]]]
            /\ UNCHANGED <<phase, editingId, editValue, isDarkMode>>

addTodo ==
    /\ phase = "running"
    /\ IF Trim(inputValue) = <<>>
       THEN /\ toast' = "error: Please enter a task!"
            /\ UNCHANGED <<phase, todos, inputValue, editingId, editValue, isDarkMode,
                           localStorage, uuids>>
       ELSE /\ uuids < MaxTodos
            /\ uuids' = uuids + 1
            /\ todos' = Append(todos, NewTodo(uuids', Trim(inputValue)))
            /\ inputValue' = <<>>
            /\ toast' = "success: Task added successfully!"
            /\ localStorage' = PersistTodos(localStorage, todos')
            /\ UNCHANGED <<phase, editingId, editValue, isDarkMode>>

\* { ...todo, completed: !todo.completed, updatedAt: new Date() }
Toggled(todo) ==
    [id |-> todo.id, text |-> todo.text, completed |-> ~todo.completed,
     createdAt |-> todo.createdAt, updatedAt |-> NewDate]

\* toggleTodo stamping updatedAt on every task, not only the matching one.
toggleTodoTouchesAll(id) ==
    /\ phase = "running"
    /\ todos' = [i \in 1..Len(todos) |->
                    [id |-> todos[i].id, text |-> todos[i].text,
                     completed |-> IF todos[i].id = id THEN ~todos[i].completed
                                                       ELSE todos[i].completed,
                     createdAt |-> todos[i].createdAt, updatedAt |-> [type |-> "Date"]]]
    /\ toast' = "info: Task status updated!"
    /\ localStorage' = PersistTodos(localStorage, todos')
    /\ UNCHANGED <<phase, inputValue, editingId, editValue, isDarkMode, uuids>>

toggleTodo(id) ==
    /\ phase = "running"
    /\ todos' = [i \in 1..Len(todos) |->
                    IF todos[i].id = id THEN Toggled(todos[i]) ELSE todos[i]]
    /\ toast' = "info: Task status updated!"
    /\ localStorage' = PersistTodos(localStorage, todos')
    /\ UNCHANGED <<phase, inputValue, editingId, editValue, isDarkMode, uuids>>

startEditing(todo) ==
    /\ phase = "running"
    /\ editingId' = todo.id
    /\ editValue' = todo.text
    /\ toast' = "none"
    /\ UNCHANGED <<phase, todos, inputValue, isDarkMode, localStorage, uuids>>

\* cancelEditing forgetting setEditingId(null).
cancelEditingKeepsSelection ==
    /\ phase = "running"
    /\ editValue' = <<>>
    /\ toast' = "none"
    /\ UNCHANGED <<phase, todos, inputValue, editingId, isDarkMode, localStorage, uuids>>

cancelEditing ==
    /\ phase = "running"
    /\ editingId' = Null
    /\ editValue' = <<>>
    /\ toast' = "none"
    /\ UNCHANGED <<phase, todos, inputValue, isDarkMode, localStorage, uuids>>

\* onChange of the edit input
setEditValue(s) ==
    /\ phase = "running"
    /\ editValue' = s
    /\ toast' = "none"
    /\ UNCHANGED <<phase, todos, inputValue, editingId, isDarkMode, localStorage, uuids>>

\* { ...todo, text: editValue.trim(), updatedAt: new Date() }
Edited(todo, text) ==
    [id |-> todo.id, text |-> text, completed |-> todo.completed,
     createdAt |-> todo.createdAt, updatedAt |-> NewDate]

\* saveEdit leaving edit mode also when it rejects the input.
saveEditClearsSelection(id) ==
    /\ phase = "running"
    /\ IF Trim(editValue) = <<>>
       THEN /\ toast' = "error: Task cannot be empty!"
            /\ editingId' = Null
            /\ editValue' = <<>>
            /\ UNCHANGED <<phase, todos, inputValue, isDarkMode, localStorage, uuids>>
       ELSE /\ todos' = [i \in 1..Len(todos) |->
                            IF todos[i].id = id THEN Edited(todos[i], Trim(editValue))
                                                ELSE todos[i]]
            /\ editingId' = Null
            /\ editValue' = <<>>
            /\ toast' = "success: Task updated successfully!"
            /\ localStorage' = PersistTodos(localStorage, todos')
            /\ UNCHANGED <<phase, inputValue, isDarkMode, uuids>>

\* saveEdit without the check of the trimmed text.
saveEditNoValidation(id) ==
    /\ phase = "running"
    /\ todos' = [i \in 1..Len(todos) |->
                    IF todos[i].id = id THEN Edited(todos[i], Trim(editValue))
                                        ELSE todos[i]]
    /\ editingId' = Null
    /\ editValue' = <<>>
    /\ toast' = "success: Task updated successfully!"
    /\ localStorage' = PersistTodos(localStorage, todos')
    /\ UNCHANGED <<phase, inputValue, isDarkMode, uuids>>

saveEdit(id) ==
    /\ phase = "running"
    /\ IF Trim(editValue) = <<>>
       THEN /\ toast' = "error: Task cannot be empty!"
            /\ UNCHANGED <<phase, todos, inputValue, editingId, editValue, isDarkMode,
                           localStorage, uuids>>
       ELSE /\ todos' = [i \in 1..Len(todos) |->
                            IF todos[i].id = id THEN Edited(todos[i], Trim(editValue))
                                                ELSE todos[i]]
            /\ editingId' = Null
            /\ editValue' = <<>>
            /\ toast' = "success: Task updated successfully!"
            /\ localStorage' = PersistTodos(localStorage, todos')
            /\ UNCHANGED <<phase, inputValue, isDarkMode, uuids>>

deleteTodo(id) ==
    /\ phase = "running"
    /\ todos' = SelectSeq(todos, LAMBDA todo : todo.id # id)
    /\ toast' = "success: Task deleted successfully!"
    /\ localStorage' = PersistTodos(localStorage, todos')
    /\ UNCHANGED <<phase, inputValue, editingId, editValue, isDarkMode, uuids>>

toggleDarkMode ==
    /\ phase = "running"
    /\ isDarkMode' = ~isDarkMode
    /\ toast' = "none"
    /\ localStorage' = PersistDarkMode(localStorage, isDarkMode')
    /\ UNCHANGED <<phase, todos, inputValue, editingId, editValue, uuids>>

\* todos.filter(todo => !todo.completed).length
remaining == Len(SelectSeq(todos, LAMBDA todo : ~todo.completed))

(***************************************************************************)
(* What the rendered page offers                                           *)
(***************************************************************************)
\* Every row showing edit and delete, whatever is being edited.
RowNeverShowsEditor(todo) == FALSE

\* editingId === todo.id: the row shows the edit input with save and cancel,
\* otherwise the text with edit and delete.
RowShowsEditor(todo) == editingId = todo.id

Rows == 1..Len(todos)

changeInput == \E s \in Typed : setInputValue(s)

submitForm == addTodo

clickCheckbox == \E i \in Rows : toggleTodo(todos[i].id)

changeEditInput == \E i \in Rows, s \in Typed : RowShowsEditor(todos[i]) /\ setEditValue(s)

clickSave == \E i \in Rows : RowShowsEditor(todos[i]) /\ saveEdit(todos[i].id)

clickCancel == \E i \in Rows : RowShowsEditor(todos[i]) /\ cancelEditing

clickEdit == \E i \in Rows : ~RowShowsEditor(todos[i]) /\ startEditing(todos[i])

clickDelete == \E i \in Rows : ~RowShowsEditor(todos[i]) /\ deleteTodo(todos[i].id)

clickTheme == toggleDarkMode

\* The application as its user drives it.
NextUI ==
    \/ Mount
    \/ changeInput
    \/ submitForm
    \/ clickCheckbox
    \/ changeEditInput
    \/ clickSave
    \/ clickCancel
    \/ clickEdit
    \/ clickDelete
    \/ clickTheme

SpecUI == Init /\ [][NextUI]_vars

(***************************************************************************)
(* The store's operations called with any id, known or not.                *)
(***************************************************************************)
create == addTodo

toggle == \E id \in Ids : toggleTodo(id)

editStart == \E i \in Rows : startEditing(todos[i])

editCancel == cancelEditing

editSave == \E id \in Ids : saveEdit(id)

delete == \E id \in Ids : deleteTodo(id)

toggleTheme == toggleDarkMode

Next ==
    \/ Mount
    \/ changeInput
    \/ changeEditInput
    \/ create
    \/ toggle
    \/ editStart
    \/ editCancel
    \/ editSave
    \/ delete
    \/ toggleTheme

Spec == Init /\ [][Next]_vars

(***************************************************************************)
(* Properties                                                              *)
(***************************************************************************)
Known(id) == \E i \in Rows : todos[i].id = id

Blank(s) == Trim(s) = <<>>

ErrorToasts == {"error: Please enter a task!", "error: Task cannot be empty!"}

\* C1: create with an input whose trimmed text is non-empty grows the
\* collection by exactly one task, appended at the end with a fresh id, the
\* trimmed text, completed = false, a createdAt and no updatedAt; the tasks
\* that were there are unchanged and keep their positions.
C1_CreateAppends ==
    [][ (addTodo /\ ~Blank(inputValue)) =>
            /\ Len(todos') = Len(todos) + 1
            /\ SubSeq(todos', 1, Len(todos)) = todos
            /\ LET new == todos'[Len(todos')] IN
                /\ ~Known(new.id)
                /\ new.text = Trim(inputValue)
                /\ new.completed = FALSE
                /\ "createdAt" \in DOMAIN new
                /\ ~HasUpdatedAt(new) ]_vars

\* A second task has just been added behind a first one.
C1_Witness ==
    /\ toast = "success: Task added successfully!"
    /\ Len(todos) = 2
    /\ todos[2].text = <<"a">>
    /\ ~HasUpdatedAt(todos[2])

\* C2: create with an empty or whitespace-only input leaves the collection
\* as it is, reports the empty input and does not clear the input field.
C2_CreateRejectsBlank ==
    [][ (addTodo /\ Blank(inputValue)) =>
            /\ todos' = todos
            /\ toast' = "error: Please enter a task!"
            /\ inputValue' = inputValue ]_vars

\* A whitespace-only input was rejected with a task in the collection.
C2_Witness ==
    /\ toast = "error: Please enter a task!"
    /\ inputValue = <<" ", " ">>
    /\ Len(todos) >= 1

\* C3: with an existing task selected for editing, save with an empty or
\* whitespace-only text leaves the collection as it is, reports the empty
\* input and leaves the selection on that task.
C3_SaveRejectsBlank ==
    [][ \A id \in Ids :
            (editingId = id /\ Known(id) /\ Blank(editValue) /\ saveEdit(id)) =>
                /\ todos' = todos
                /\ toast' = "error: Task cannot be empty!"
                /\ editingId' = id ]_vars

\* A whitespace-only edit of a task of the collection was rejected.
C3_Witness ==
    /\ toast = "error: Task cannot be empty!"
    /\ Known(editingId)
    /\ editValue = <<" ", " ">>

\* C4: from empty storage on, every task of the collection has a text that
\* is neither empty nor whitespace only.
C4_TextNeverBlank == \A i \in Rows : ~Blank(todos[i].text)

\* Two tasks, the first with the text an edit has just written.
C4_Witness ==
    /\ toast = "success: Task updated successfully!"
    /\ Len(todos) = 2
    /\ HasUpdatedAt(todos[1])
    /\ todos[1].text = <<"a">>

\* C5: while the application runs, the value under 'todos' is the
\* serialization of the collection in memory and the value under 'darkMode'
\* is that of the theme flag: every operation has rewritten what it changed
\* before the next one runs.
C5_StorageMirrorsState ==
    phase = "running" =>
        /\ localStorage.todos = StringifyTodos(todos)
        /\ localStorage.darkMode = StringifyDarkMode(isDarkMode)

\* Storage holds two tasks, one of them toggled, and the dark theme.
C5_Witness ==
    /\ phase = "running"
    /\ isDarkMode
    /\ Len(todos) = 2
    /\ todos[1].completed
    /\ Len(localStorage.todos.value) = 2

\* C6: at startup, when 'todos' is absent or does not parse the collection
\* starts empty, when 'darkMode' is absent or does not parse the flag starts
\* false, and the application reaches its running state.
C6_StartupTolerant ==
    [][ (Mount /\ phase = "closed") =>
            /\ phase' = "running"
            /\ localStorage.todos.kind # "json" => todos' = <<>>
            /\ localStorage.darkMode.kind # "json" => isDarkMode' = FALSE ]_vars

\* C7: reloading reproduces the persisted collection: same length and order,
\* and for each task the same id, text, completed, createdAt and updatedAt,
\* timestamps in the same representation.
C7_RoundTrip ==
    [][ (Mount /\ phase = "running") => todos' = todos ]_vars

\* C8: toggle and delete with an id that matches no task change neither the
\* collection nor the selection nor the theme flag, and raise no error.
C8_UnknownIdNoOp ==
    [][ \A id \in Ids :
            (~Known(id) /\ (toggleTodo(id) \/ deleteTodo(id))) =>
                /\ todos' = todos
                /\ editingId' = editingId
                /\ isDarkMode' = isDarkMode
                /\ phase' = "running"
                /\ toast' \notin ErrorToasts ]_vars

\* deleteTodo ran although every task ever created is still there: its id
\* matched none.
C8_Witness ==
    /\ toast = "success: Task deleted successfully!"
    /\ uuids >= 1
    /\ Len(todos) = uuids
    /\ editingId # Null

\* C9 as stated: start(id) selects id; cancel, and save with any text,
\* select nothing; create, toggle, delete and toggleTheme leave the
\* selection alone.
C9_SaveAlwaysClears ==
    [][ /\ \A i \in Rows : startEditing(todos[i]) => editingId' = todos[i].id
        /\ cancelEditing => editingId' = Null
        /\ \A id \in Ids : saveEdit(id) => editingId' = Null
        /\ (addTodo \/ toggleDarkMode \/ \E id \in Ids : toggleTodo(id) \/ deleteTodo(id))
              => editingId' = editingId ]_vars

\* C9 amended: the selection is nothing or one id; start(id) selects id;
\* cancel selects nothing; save selects nothing when the trimmed text is
\* non-empty and leaves the selection as it is otherwise; create, toggle,
\* delete and toggleTheme leave the selection alone.
C9_Selector ==
    [][ /\ editingId' \in {Null} \cup Ids
        /\ \A i \in Rows : startEditing(todos[i]) => editingId' = todos[i].id
        /\ cancelEditing => editingId' = Null
        /\ \A id \in Ids : saveEdit(id) =>
              editingId' = IF Blank(editValue) THEN editingId ELSE Null
        /\ (addTodo \/ toggleDarkMode \/ \E id \in Ids : toggleTodo(id) \/ deleteTodo(id))
              => editingId' = editingId ]_vars

\* A save has written the edited text and nothing is selected any more.
C9_Witness ==
    /\ toast = "success: Task updated successfully!"
    /\ editingId = Null
    /\ editValue = <<>>
    /\ \E i \in Rows : HasUpdatedAt(todos[i]) /\ ~todos[i].completed

\* C10: driven through what the page offers, the selection is nothing or
\* the id of a task of the collection.
C10_SelectionIsPresent == editingId = Null \/ Known(editingId)

\* A task is being edited after another one was deleted.
C10_Witness ==
    /\ editingId # Null
    /\ Known(editingId)
    /\ Len(todos) < uuids
    /\ toast = "success: Task deleted successfully!"

====
